---- MODULE Spec2Model ----
(***************************************************************************)
(* Model of the parallel task orchestrator (ParallelOrchestrator in        *)
(* src/src/agents/parallel-orchestrator.ts) together with the worker       *)
(* threads it drives (src/src/agents/parallel-worker.ts).                  *)
(*                                                                         *)
(* The orchestrator runs on one JavaScript event loop.  A macrotask (a     *)
(* worker message, a worker 'error' or 'exit' event, a timer) runs only    *)
(* when the microtask queue is empty; the continuation of every `await`    *)
(* is a microtask, run in FIFO order.  Calls made by the embedding         *)
(* application (submitTask) may come from any of its own macrotasks or     *)
(* microtasks, hence at any point between two microtasks.                  *)
(*                                                                         *)
(* The second part models the goal loop (GoalLoop in                       *)
(* src/src/agents/goal-loop.ts): its registry of goals, the loops that     *)
(* start() runs, their ticks and the executions of goals in flight.  Every *)
(* `await` of the loop is a point where calls of the application and       *)
(* completions of actions may come in between.                             *)
(*                                                                         *)
(* The third part models the query cache of the memory context             *)
(* (ContinuousContext in src/src/memory/continuous-context.ts) and the     *)
(* fourth the personality history of SelfModification                      *)
(* (src/src/agents/self-modification.ts).                                  *)
(***************************************************************************)
EXTENDS Integers, Sequences, FiniteSets, TLC

\* ---------------------------------------------------------------- bounds
\* number of submitTask calls that are accepted in one behaviour
MaxTasks == 3
\* cap of the per-worker error counter (WorkerInstance.errors)
MaxErrors == 2
\* cap of nextWorkerId: number of worker threads ever created
MaxWorkerIds == 3
\* maxTotalGoals of the goal loop; one goal more than that is ever created
MaxGoals == 2
\* maxRuns of a schedule and maxRetries of a goal
MaxRuns == 2
\* cap of the number of executions started per goal
MaxStarts == 3
\* cap of the clock (Date.now())
MaxNow == 2
\* cap of the number of start() calls that found the loop stopped, and of
\* the number of stop() calls that wait at the same time
MaxLoops == 2
\* highest relevance score of a memory search result (scores are 0..MaxScore)
MaxScore == 2
\* highest maxResults option of an autoInject call
MaxResults == 2
\* cap of the number of autoInject calls that await their search at once
MaxPending == 2
\* cap of the number of changes of the personality (updates and rollbacks),
\* and highest number of steps of a rollback
MaxChanges == 3

\* ---------------------------------------------------------------- constants
\* size of the query cache above which cache() evicts, and how many entries
CacheLimit == 1000
CacheEvicted == 100

\* ------------------------------------------------------- inputs (small sets)
\* Task descriptions handed to submitTask.  maxRetries = 0 stands for an
\* absent (or zero) maxRetries, timeout = FALSE for an absent timeout.
Template(ty, pr, to, re, mr) ==
  [type |-> ty, priority |-> pr, timeout |-> to, retryOnError |-> re, maxRetries |-> mr]

PlainLow   == Template("monitor", 1, FALSE, FALSE, 0)
PlainHigh  == Template("research", 5, FALSE, FALSE, 0)
TimedLow   == Template("monitor", 1, TRUE, FALSE, 0)
RetryLow   == Template("research", 1, FALSE, TRUE, 2)
TimedRetry == Template("monitor", 1, TRUE, TRUE, 2)

\* ParallelOrchestratorConfig: the constructor argument.  idleTimeout is 1
\* throughout: what matters is whether the idle time read exceeds it.
Config(mw, qs, as) ==
  [maxWorkers |-> mw, taskQueueSize |-> qs, enableAutoScaling |-> as, idleTimeout |-> 1]

\* The embedding application: the task descriptions it submits and the
\* number of submitTask calls it has accepted at most.
Env(tpls, n) == [templates |-> tpls, submits |-> n]

\* Date.now() - worker.lastActivity as read by considerScaleDown
IdleTimes == {0, 2}

VARIABLES
  cfg,          \* this.config
  env,          \* the embedding application (fixed by Init)
  tasks,        \* the WorkerTask objects created by submitTask, by id
  workers,      \* this.workers: Map<string, WorkerInstance>
  taskQueue,    \* this.taskQueue
  activeTasks,  \* this.activeTasks (its key set)
  results,      \* this.results
  nextWorkerId, \* this.nextWorkerId
  micro,        \* the microtask queue: suspended async calls of the orchestrator
  polling,      \* getOrCreateWorker calls parked in the setInterval poll
  timers,       \* armed setTimeout timers of executeTask
  threads,      \* the worker threads: executions in progress (a bag of task
                \* ids), pending terminate, crash
  dispatched,   \* per task: number of execute messages sent for it
  sentTo,       \* per task: the worker its last execute message went to
  closing,      \* the shutdown() call: not made ("no"), awaiting the exit of a
                \* worker it has terminated ("waiting"), its continuation
                \* queued as a microtask ("resumed"), or resolved ("done")
  out,          \* events emitted (error thrown, clock read) by the last step
  goalLoop,     \* the GoalLoop instance with its loops and executions in flight
  continuousContext, \* the ContinuousContext instance and its searches in flight
  selfModification   \* the SelfModification instance

vars == <<cfg, env, tasks, workers, taskQueue, activeTasks, results, nextWorkerId,
          micro, polling, timers, threads, dispatched, sentTo, closing, out, goalLoop,
          continuousContext, selfModification>>

orchestrator == <<cfg, env, tasks, workers, taskQueue, activeTasks, results, nextWorkerId,
                  micro, polling, timers, threads, dispatched, sentTo, closing, out>>

\* The mutable state as one record, so that handlers compose as functions.
Cur ==
  [tasks |-> tasks, workers |-> workers, taskQueue |-> taskQueue,
   activeTasks |-> activeTasks, results |-> results, nextWorkerId |-> nextWorkerId,
   micro |-> micro, polling |-> polling, timers |-> timers, threads |-> threads,
   dispatched |-> dispatched, sentTo |-> sentTo, closing |-> closing, out |-> <<>>]

Commit(s) ==
  /\ tasks' = s.tasks
  /\ workers' = s.workers
  /\ taskQueue' = s.taskQueue
  /\ activeTasks' = s.activeTasks
  /\ results' = s.results
  /\ nextWorkerId' = s.nextWorkerId
  /\ micro' = s.micro
  /\ polling' = s.polling
  /\ timers' = s.timers
  /\ threads' = s.threads
  /\ dispatched' = s.dispatched
  /\ sentTo' = s.sentTo
  /\ closing' = s.closing
  /\ out' = s.out
  /\ UNCHANGED <<cfg, env, goalLoop, continuousContext, selfModification>>
  \* the caps of the unbounded counters
  /\ s.nextWorkerId <= MaxWorkerIds + 1
  /\ \A w \in DOMAIN s.workers : s.workers[w].errors <= MaxErrors

\* ------------------------------------------------------------- helpers
MinOf(S) == CHOOSE x \in S : \A y \in S : x <= y

Without(f, k) == [x \in (DOMAIN f) \ {k} |-> f[x]]

Put(f, k, v) == [x \in (DOMAIN f) \cup {k} |-> IF x = k THEN v ELSE f[x]]

\* Bags as functions from the elements to their positive counts
BagAdd(b, x) ==
  [y \in (DOMAIN b) \cup {x} |-> IF y # x THEN b[y] ELSE IF x \in DOMAIN b THEN b[x] + 1 ELSE 1]

BagRemove(b, x) == IF b[x] > 1 THEN [b EXCEPT ![x] = @ - 1] ELSE Without(b, x)

Emit(s, name, id) == [s EXCEPT !.out = Append(@, <<name, id>>)]

Emitted(o, name) == \E i \in 1..Len(o) : o[i][1] = name

\* ------------------------------------------------------- orchestrator code
canSpawnWorker(s) == Cardinality(DOMAIN s.workers) < cfg.maxWorkers

createWorker(s, type) ==
  LET workerId == s.nextWorkerId
      instance == [type |-> type, status |-> "idle", currentTask |-> 0, errors |-> 0]
      s1 == [s EXCEPT !.nextWorkerId = @ + 1,
                      !.workers = Put(@, workerId, instance),
                      !.threads = Put(@, workerId, [exec |-> <<>>, term |-> FALSE, crashed |-> FALSE])]
  IN Emit(s1, "workerCreated", workerId)

\* Mutant of getOrCreateWorker: the first idle worker is taken whatever its type
getOrCreateWorkerAnyIdle(s, type) ==
  LET anyIdle == {w \in DOMAIN s.workers : s.workers[w].status = "idle"}
  IN IF anyIdle # {}
     THEN [s |-> [s EXCEPT !.workers[MinOf(anyIdle)].type = type],
           w |-> MinOf(anyIdle), how |-> "now"]
     ELSE IF Cardinality(DOMAIN s.workers) < cfg.maxWorkers
     THEN [s |-> createWorker(s, type), w |-> s.nextWorkerId, how |-> "created"]
     ELSE [s |-> s, w |-> 0, how |-> "poll"]

\* The synchronous part of getOrCreateWorker: the worker it settles on (w),
\* and how it returns: "now" (a resolved promise), "created" (after the await
\* of createWorker) or "poll" (the setInterval loop).
getOrCreateWorker(s, type) ==
  LET sameType == {w \in DOMAIN s.workers :
                     s.workers[w].type = type /\ s.workers[w].status = "idle"}
      anyIdle == {w \in DOMAIN s.workers : s.workers[w].status = "idle"}
  IN IF sameType # {} THEN [s |-> s, w |-> MinOf(sameType), how |-> "now"]
     ELSE IF anyIdle # {}
     THEN [s |-> [s EXCEPT !.workers[MinOf(anyIdle)].type = type],
           w |-> MinOf(anyIdle), how |-> "now"]
     ELSE IF Cardinality(DOMAIN s.workers) < cfg.maxWorkers
     THEN [s |-> createWorker(s, type), w |-> s.nextWorkerId, how |-> "created"]
     ELSE [s |-> s, w |-> 0, how |-> "poll"]

\* Mutant of processQueue: no canSpawnWorker test, a worker is spawned for
\* the head task whenever none is idle.
processQueueSpawnsFreely(s, owner) ==
  IF Len(s.taskQueue) > 0
  THEN LET task == Head(s.taskQueue)
           s0 == [s EXCEPT !.taskQueue = Tail(@)]
           idle == {w \in DOMAIN s.workers : s.workers[w].status = "idle"}
           g == IF idle # {} THEN getOrCreateWorker(s0, s.tasks[task].type)
                ELSE [s |-> createWorker(s0, s.tasks[task].type),
                      w |-> s0.nextWorkerId, how |-> "created"]
           call == [stage |-> IF g.how = "created" THEN "create" ELSE "execute",
                    task |-> task, worker |-> g.w, owner |-> owner]
       IN [g.s EXCEPT !.micro = Append(@, call)]
  ELSE IF owner = "submit"
  THEN [s EXCEPT !.micro = Append(@, [stage |-> "return", task |-> 0, worker |-> 0, owner |-> owner])]
  ELSE s

\* processQueue from its loop test up to the first await: the call of
\* executeTask, which itself suspends in `await this.getOrCreateWorker(...)`.
\* owner is "submit" when submitTask awaits this processQueue call.
processQueue(s, owner) ==
  IF Len(s.taskQueue) > 0 /\ canSpawnWorker(s)
  THEN LET task == Head(s.taskQueue)
           g == getOrCreateWorker([s EXCEPT !.taskQueue = Tail(@)], s.tasks[task].type)
           call == [stage |-> IF g.how = "created" THEN "create" ELSE "execute",
                    task |-> task, worker |-> g.w, owner |-> owner]
       IN IF g.how = "poll"
          THEN [g.s EXCEPT !.polling = @ \cup {call}]
          ELSE [g.s EXCEPT !.micro = Append(@, call)]
  ELSE IF owner = "submit"
  THEN [s EXCEPT !.micro = Append(@, [stage |-> "return", task |-> 0, worker |-> 0, owner |-> owner])]
  ELSE s

\* executeTask after `await this.getOrCreateWorker(task.type)`.  The worker
\* object may have left this.workers meanwhile: the writes then go to an
\* object nothing reads again, and the message to a thread that is gone.
executeTask(s, task, w) ==
  LET inPool == w \in DOMAIN s.workers
      attempt == s.dispatched[task] + 1
      accepts == inPool /\ ~s.threads[w].term /\ ~s.threads[w].crashed
      s1 == [s EXCEPT !.activeTasks = @ \cup {task},
                      !.workers = IF inPool
                                  THEN [@ EXCEPT ![w].currentTask = task, ![w].status = "running"]
                                  ELSE @,
                      !.threads = IF accepts THEN [@ EXCEPT ![w].exec = BagAdd(@, task)] ELSE @,
                      !.dispatched[task] = attempt,
                      !.sentTo[task] = w,
                      !.timers = IF s.tasks[task].timeout
                                 THEN @ \cup {[task |-> task, attempt |-> attempt]}
                                 ELSE @]
  IN Emit(s1, "taskStarted", task)

\* The task a handler works on: activeTasks.get(worker.currentTask), 0 if none
TaskOf(s, wobj) ==
  IF wobj.currentTask # 0 /\ wobj.currentTask \in s.activeTasks THEN wobj.currentTask ELSE 0

terminateWorker(s, w) ==
  IF w \notin DOMAIN s.workers THEN s
  ELSE Emit([s EXCEPT !.workers = Without(@, w), !.threads = Without(@, w)],
            "workerTerminated", w)

\* Mutant of considerScaleDown: the idle time is read and not compared
considerScaleDownAtOnce(s, w, idleTime) ==
  IF Cardinality(DOMAIN s.workers) <= 1 THEN s
  ELSE IF Len(s.taskQueue) > 0 THEN s
  ELSE terminateWorker(Emit(s, "clock:idleTime", idleTime), w)

\* idleTime is Date.now() - worker.lastActivity as read at line 461; the
\* value read is put on record next to the events of the step.
considerScaleDown(s, w, idleTime) ==
  IF Cardinality(DOMAIN s.workers) <= 1 THEN s
  ELSE IF Len(s.taskQueue) > 0 THEN s
  ELSE LET s1 == Emit(s, "clock:idleTime", idleTime)
       IN IF idleTime > cfg.idleTimeout THEN terminateWorker(s1, w) ELSE s1

handleProgress(s, w) ==
  LET task == TaskOf(s, s.workers[w])
  IN IF task = 0 THEN s ELSE Emit(s, "taskProgress", task)

\* from is the task whose handler produced the message's data
handleComplete(s, w, from, idleTime) ==
  LET task == TaskOf(s, s.workers[w])
      s1 == [s EXCEPT !.results = Put(@, task, [success |-> TRUE, error |-> "none", data |-> from]),
                      !.activeTasks = @ \ {task},
                      !.workers[w].currentTask = 0,
                      !.workers[w].status = "idle"]
      s2 == processQueue(Emit(s1, "taskCompleted", task), "handler")
  IN IF task = 0 THEN s
     ELSE IF cfg.enableAutoScaling THEN considerScaleDown(s2, w, idleTime)
     ELSE s2

\* wobj is the WorkerInstance object the handler was given; it is in
\* this.workers under w unless handleWorkerExit has just deleted it.
handleTaskError(s, w, wobj, error) ==
  LET task == TaskOf(s, wobj)
      errors == wobj.errors + 1
      s1 == [s EXCEPT !.results = Put(@, task, [success |-> FALSE, error |-> error, data |-> 0]),
                      !.activeTasks = @ \ {task},
                      !.workers = IF w \in DOMAIN @
                                  THEN [@ EXCEPT ![w].errors = errors,
                                                 ![w].currentTask = 0,
                                                 ![w].status = "idle"]
                                  ELSE @]
      s2 == Emit(s1, "taskError", task)
      retry == s.tasks[task].retryOnError
                 /\ (s.tasks[task].maxRetries = 0 \/ errors < s.tasks[task].maxRetries)
      s3 == IF retry THEN [s2 EXCEPT !.taskQueue = <<task>> \o @] ELSE s2
  IN IF task = 0 THEN s ELSE processQueue(s3, "handler")

\* Mutant of handleWorkerError: the task of the worker is not failed
handleWorkerErrorOnlyMarks(s, w) ==
  Emit([s EXCEPT !.workers[w].status = "error"], "workerError", w)

handleWorkerError(s, w) ==
  LET s1 == Emit([s EXCEPT !.workers[w].status = "error"], "workerError", w)
  IN IF s1.workers[w].currentTask # 0
     THEN handleTaskError(s1, w, s1.workers[w], "crash")
     ELSE s1

handleWorkerExit(s, w) ==
  LET wobj == s.workers[w]
      s1 == Emit([s EXCEPT !.workers = Without(@, w), !.threads = Without(@, w)],
                 "workerExited", w)
  IN IF wobj.currentTask # 0 THEN handleTaskError(s1, w, wobj, "exit") ELSE s1

\* Mutant of terminateTask: the worker keeps the task as its current task
terminateTaskKeepsCurrent(s, task) ==
  LET running == {w \in DOMAIN s.workers : s.workers[w].currentTask = task}
      w == MinOf(running)
      s1 == [s EXCEPT !.threads[w].term = TRUE,
                      !.results = Put(@, task, [success |-> FALSE, error |-> "timeout", data |-> 0]),
                      !.workers[w].status = "idle"]
  IN IF task \notin s.activeTasks \/ running = {} THEN s
     ELSE Emit(s1, "taskTerminated", task)

terminateTask(s, task) ==
  LET running == {w \in DOMAIN s.workers : s.workers[w].currentTask = task}
      w == MinOf(running)
      s1 == [s EXCEPT !.threads[w].term = TRUE,
                      !.results = Put(@, task, [success |-> FALSE, error |-> "timeout", data |-> 0]),
                      !.activeTasks = @ \ {task},
                      !.workers[w].currentTask = 0,
                      !.workers[w].status = "idle"]
  IN IF task \notin s.activeTasks \/ running = {} THEN s
     ELSE Emit(s1, "taskTerminated", task)

\* Mutant of shutdown: activeTasks is not cleared
shutdownKeepsActive(s, after) ==
  LET rest == {w \in DOMAIN s.workers : w > after}
      w == MinOf(rest)
  IN IF rest # {}
     THEN [s EXCEPT !.threads[w].term = TRUE,
                    !.closing = [stage |-> "waiting", worker |-> w]]
     ELSE Emit([s EXCEPT !.workers = <<>>,
                         !.taskQueue = <<>>,
                         !.closing = [stage |-> "done", worker |-> 0]], "shutdown", 0)

\* shutdown, from its start or from the await it was suspended in, up to its
\* next await or its end.  The loop walks this.workers.values(), a live
\* iterator in insertion order: after the worker it awaited (after) it goes
\* on with the next worker still or newly in the map.
shutdown(s, after) ==
  LET rest == {w \in DOMAIN s.workers : w > after}
      w == MinOf(rest)
  IN IF rest # {}
     THEN [s EXCEPT !.threads[w].term = TRUE,
                    !.closing = [stage |-> "waiting", worker |-> w]]
     ELSE Emit([s EXCEPT !.workers = <<>>,
                         !.taskQueue = <<>>,
                         !.activeTasks = {},
                         !.closing = [stage |-> "done", worker |-> 0]], "shutdown", 0)

getStatus ==
  [workers |-> Cardinality(DOMAIN workers),
   activeWorkers |-> Cardinality({w \in DOMAIN workers : workers[w].status = "running"}),
   queuedTasks |-> Len(taskQueue),
   activeTasks |-> Cardinality(activeTasks),
   completedTasks |-> Cardinality(DOMAIN results)]

getResult(taskId) == IF taskId \in DOMAIN results THEN results[taskId] ELSE "undefined"

\* Mutant of getTaskStatus: a missing result is not told from a failed one
getTaskStatusNoResultTest(taskId) ==
  IF \E i \in 1..Len(taskQueue) : taskQueue[i] = taskId THEN "queued"
  ELSE IF taskId \in activeTasks THEN "running"
  ELSE IF taskId \in DOMAIN results /\ results[taskId].success THEN "completed"
  ELSE "error"

getTaskStatus(taskId) ==
  IF \E i \in 1..Len(taskQueue) : taskQueue[i] = taskId THEN "queued"
  ELSE IF taskId \in activeTasks THEN "running"
  ELSE IF taskId \in DOMAIN results
  THEN (IF results[taskId].success THEN "completed" ELSE "error")
  ELSE "unknown"

\* ------------------------------------------------------------- actions
\* Mutant of SubmitTask: the capacity test is off by one (> for >=)
SubmitTaskOffByOne(tpl) ==
  /\ Cardinality(DOMAIN tasks) < env.submits
  /\ IF Len(taskQueue) > cfg.taskQueueSize
     THEN Commit(Emit(Cur, "throw:Task queue full", 0))
     ELSE LET taskId == Cardinality(DOMAIN tasks) + 1
              s1 == [Cur EXCEPT !.tasks = Put(@, taskId, tpl),
                                !.dispatched = Put(@, taskId, 0),
                                !.sentTo = Put(@, taskId, 0),
                                !.taskQueue = Append(@, taskId)]
          IN Commit(processQueue(Emit(s1, "taskQueued", taskId), "submit"))

\* submitTask, up to its await of processQueue
SubmitTask(tpl) ==
  /\ Cardinality(DOMAIN tasks) < env.submits
  /\ IF Len(taskQueue) >= cfg.taskQueueSize
     THEN Commit(Emit(Cur, "throw:Task queue full", 0))
     ELSE LET taskId == Cardinality(DOMAIN tasks) + 1
              s1 == [Cur EXCEPT !.tasks = Put(@, taskId, tpl),
                                !.dispatched = Put(@, taskId, 0),
                                !.sentTo = Put(@, taskId, 0),
                                !.taskQueue = Append(@, taskId)]
          IN Commit(processQueue(Emit(s1, "taskQueued", taskId), "submit"))

\* One microtask: the continuation of the await at the head of the queue
Microtask ==
  /\ micro # <<>>
  /\ LET m == Head(micro)
         s == [Cur EXCEPT !.micro = Tail(@)]
     IN CASE m.stage = "create" ->
               \* getOrCreateWorker returns the instance it awaited
               Commit([s EXCEPT !.micro = Append(@, [m EXCEPT !.stage = "execute"])])
          [] m.stage = "execute" ->
               \* executeTask runs to its end; processQueue is resumed next
               Commit([executeTask(s, m.task, m.worker)
                         EXCEPT !.micro = Append(@, [m EXCEPT !.stage = "loop"])])
          [] m.stage = "loop" ->
               Commit(processQueue(s, m.owner))
          [] m.stage = "return" ->
               Commit(s)
          [] m.stage = "shutdown" ->
               \* shutdown goes on after `await worker.instance.terminate()`
               Commit(shutdown(s, m.worker))

\* A worker thread reports progress of a task it runs
WorkerProgress(w, t) ==
  /\ micro = <<>>
  /\ w \in DOMAIN threads /\ t \in DOMAIN threads[w].exec
  /\ Commit(handleProgress(Cur, w))

\* Mutant of WorkerComplete: the thread reports complete and goes on with
\* the same execution
WorkerCompleteGoesOn(w, t, idleTime) ==
  /\ micro = <<>>
  /\ w \in DOMAIN threads /\ t \in DOMAIN threads[w].exec
  /\ Commit(handleComplete(Cur, w, t, idleTime))

\* A worker thread ends a task with reportComplete
WorkerComplete(w, t, idleTime) ==
  /\ micro = <<>>
  /\ w \in DOMAIN threads /\ t \in DOMAIN threads[w].exec
  /\ Commit(handleComplete([Cur EXCEPT !.threads[w].exec = BagRemove(@, t)], w, t, idleTime))

\* A worker thread ends a task with reportError
WorkerError(w, t) ==
  /\ micro = <<>>
  /\ w \in DOMAIN threads /\ t \in DOMAIN threads[w].exec
  /\ Commit(handleTaskError([Cur EXCEPT !.threads[w].exec = BagRemove(@, t)], w, workers[w], "handler"))

\* A worker thread dies of an uncaught error: its 'error' event
WorkerCrash(w) ==
  /\ micro = <<>>
  /\ w \in DOMAIN threads /\ ~threads[w].crashed
  /\ Commit(handleWorkerError([Cur EXCEPT !.threads[w].exec = <<>>, !.threads[w].crashed = TRUE], w))

\* The 'exit' event of a worker thread: after a crash, after the thread ran
\* process.exit(0) on a terminate message, or after instance.terminate().
\* The listener of the orchestrator runs first; the promise of a terminate()
\* call that shutdown awaits is resolved after it.
WorkerExit(w) ==
  /\ micro = <<>>
  /\ w \in DOMAIN threads /\ (threads[w].crashed \/ threads[w].term)
  /\ LET s == handleWorkerExit(Cur, w)
     IN IF closing.stage = "waiting" /\ closing.worker = w
        THEN Commit([s EXCEPT !.micro = Append(@, [stage |-> "shutdown", task |-> 0,
                                                   worker |-> w, owner |-> "shutdown"]),
                              !.closing.stage = "resumed"])
        ELSE Commit(s)

\* The 'exit' event of a thread that terminateWorker took out of the pool
\* while shutdown awaited its terminate(): handleWorkerExit finds no worker
\* and returns, the promise is resolved.
AwaitedWorkerExit ==
  /\ micro = <<>>
  /\ closing.stage = "waiting" /\ closing.worker \notin DOMAIN threads
  /\ Commit([Cur EXCEPT !.micro = Append(@, [stage |-> "shutdown", task |-> 0,
                                             worker |-> closing.worker, owner |-> "shutdown"]),
                        !.closing.stage = "resumed"])

\* The application calls shutdown()
ShutdownCall ==
  /\ closing.stage = "no"
  /\ Commit(shutdown(Cur, 0))

\* The timeout callback armed by executeTask.  Timers of one task have the
\* same delay and so expire in the order they were armed.
TimerFire(tm) ==
  /\ micro = <<>>
  /\ tm \in timers
  /\ \A o \in timers : o.task = tm.task => o.attempt >= tm.attempt
  /\ LET s == [Cur EXCEPT !.timers = @ \ {tm}]
     IN Commit(IF tm.task \in s.activeTasks THEN terminateTask(s, tm.task) ELSE s)

\* A call of getTaskStatus by the application; what it returns is put on
\* record next to the events of the step
GetTaskStatusCall(taskId) ==
  Commit(Emit(Cur, "getTaskStatus", <<taskId, getTaskStatus(taskId)>>))

Constructed(c, e) ==
  /\ cfg = c
  /\ env = e
  /\ tasks = <<>>
  /\ workers = <<>>
  /\ taskQueue = <<>>
  /\ activeTasks = {}
  /\ results = <<>>
  /\ nextWorkerId = 1
  /\ micro = <<>>
  /\ polling = {}
  /\ timers = {}
  /\ threads = <<>>
  /\ dispatched = <<>>
  /\ sentTo = <<>>
  /\ closing = [stage |-> "no", worker |-> 0]
  /\ out = <<>>

\* An orchestrator on its own: no goal loop is constructed
InitState(c, e) ==
  /\ Constructed(c, e)
  /\ goalLoop = <<>>
  /\ continuousContext = <<>>
  /\ selfModification = <<>>

\* The scenarios of the main specification: pool and queue sizes with the
\* kinds of task each is exercised with.
Scenarios ==
  { <<Config(2, 2, TRUE), Env({PlainLow, PlainHigh}, MaxTasks)>>,
    <<Config(1, 2, FALSE), Env({TimedLow, PlainHigh}, MaxTasks)>>,
    <<Config(2, 1, FALSE), Env({RetryLow}, MaxTasks)>>,
    <<Config(2, 1, FALSE), Env({TimedRetry}, MaxTasks - 1)>> }

Init == \E sc \in Scenarios : InitState(sc[1], sc[2])

Next ==
  \/ \E tpl \in env.templates : SubmitTask(tpl)
  \/ Microtask
  \/ \E w \in DOMAIN threads : \E t \in DOMAIN threads[w].exec : WorkerProgress(w, t)
  \/ \E w \in DOMAIN threads : \E t \in DOMAIN threads[w].exec :
       \E idleTime \in IdleTimes : WorkerComplete(w, t, idleTime)
  \/ \E w \in DOMAIN threads : \E t \in DOMAIN threads[w].exec : WorkerError(w, t)
  \/ \E w \in DOMAIN threads : WorkerCrash(w)
  \/ \E w \in DOMAIN threads : WorkerExit(w)
  \/ \E tm \in timers : TimerFire(tm)

Spec == Init /\ [][Next]_vars

\* A burst of submissions into a pool of two with a queue of one
BurstInit == InitState(Config(2, 1, FALSE), Env({TimedLow}, MaxTasks + 1))

BurstSpec == BurstInit /\ [][Next]_vars

\* The scheduling the event loop and the worker threads guarantee: microtasks
\* run, a handler returns or throws, an armed timer expires, a thread told
\* to terminate exits.  Submissions and crashes are not forced.
Terminal ==
  \E w \in DOMAIN threads : \E t \in DOMAIN threads[w].exec :
    \/ \E idleTime \in IdleTimes : WorkerComplete(w, t, idleTime)
    \/ WorkerError(w, t)

Fairness ==
  /\ WF_vars(Microtask)
  /\ WF_vars(Terminal)
  /\ WF_vars(\E tm \in timers : TimerFire(tm))
  /\ WF_vars(\E w \in DOMAIN threads : WorkerExit(w))

LiveInit == InitState(Config(1, 2, FALSE), Env({PlainLow, TimedLow}, MaxTasks))

\* No worker thread crashes: every handler invocation returns or throws
LiveNext ==
  \/ \E tpl \in env.templates : SubmitTask(tpl)
  \/ Microtask
  \/ \E w \in DOMAIN threads : \E t \in DOMAIN threads[w].exec : WorkerProgress(w, t)
  \/ Terminal
  \/ \E w \in DOMAIN threads : WorkerExit(w)
  \/ \E tm \in timers : TimerFire(tm)

LiveSpec == LiveInit /\ [][LiveNext]_vars /\ Fairness

\* Handlers that always throw: every attempt of every task ends with the
\* worker's reportError, no thread crashes and no task has a timeout.
ThrowInit == InitState(Config(2, 2, FALSE), Env({RetryLow}, MaxTasks))

ThrowNext ==
  \/ \E tpl \in env.templates : SubmitTask(tpl)
  \/ Microtask
  \/ \E w \in DOMAIN threads : \E t \in DOMAIN threads[w].exec : WorkerError(w, t)

ThrowSpec == ThrowInit /\ [][ThrowNext]_vars

\* Auto-scaling on, a pool of two, under the scheduling of Fairness
ScaleLiveInit == InitState(Config(2, 2, TRUE), Env({PlainLow, TimedLow}, MaxTasks - 1))

ScaleLiveSpec == ScaleLiveInit /\ [][LiveNext]_vars /\ Fairness

\* A pool of two with auto-scaling on or off, under every scheduling
ScaleInit ==
  \E as \in BOOLEAN : InitState(Config(2, 2, as), Env({PlainLow, TimedLow}, MaxTasks - 1))

ScaleSpec == ScaleInit /\ [][Next]_vars

\* A pool of up to three workers and tasks of two types, auto-scaling on
AffinityInit == InitState(Config(3, 2, TRUE), Env({PlainLow, PlainHigh}, MaxTasks))

AffinityNext ==
  \/ \E tpl \in env.templates : SubmitTask(tpl)
  \/ Microtask
  \/ \E w \in DOMAIN threads : \E t \in DOMAIN threads[w].exec :
       \E idleTime \in IdleTimes : WorkerComplete(w, t, idleTime)
  \/ \E w \in DOMAIN threads : WorkerCrash(w)
  \/ \E w \in DOMAIN threads : WorkerExit(w)

AffinitySpec == AffinityInit /\ [][AffinityNext]_vars

\* A pool of one without auto-scaling and tasks that have a timeout and are
\* retried, so that timers, messages, 'error' and 'exit' events race
DispatchInit == InitState(Config(1, 2, FALSE), Env({TimedRetry, RetryLow}, MaxTasks))

DispatchNext ==
  \/ \E tpl \in env.templates : SubmitTask(tpl)
  \/ Microtask
  \/ \E w \in DOMAIN threads : \E t \in DOMAIN threads[w].exec :
       \E idleTime \in IdleTimes : WorkerComplete(w, t, idleTime)
  \/ \E w \in DOMAIN threads : \E t \in DOMAIN threads[w].exec : WorkerError(w, t)
  \/ \E w \in DOMAIN threads : WorkerCrash(w)
  \/ \E w \in DOMAIN threads : WorkerExit(w)
  \/ \E tm \in timers : TimerFire(tm)

DispatchSpec == DispatchInit /\ [][DispatchNext]_vars

\* A pool of up to three workers with auto-scaling on and one task more
\* than the pool holds, so that a task waits in the queue while the pool is
\* full
ReapInit == InitState(Config(3, 2, TRUE), Env({PlainLow}, MaxTasks + 1))

ReapSpec == ReapInit /\ [][AffinityNext]_vars

\* The message protocol of the worker threads: tasks that are retried, on
\* threads that neither crash nor are told to terminate
ProtocolInit == InitState(Config(2, 2, FALSE), Env({RetryLow}, MaxTasks))

ProtocolNext ==
  \/ \E tpl \in env.templates : SubmitTask(tpl)
  \/ Microtask
  \/ \E w \in DOMAIN threads : \E t \in DOMAIN threads[w].exec : WorkerProgress(w, t)
  \/ \E w \in DOMAIN threads : \E t \in DOMAIN threads[w].exec :
       \E idleTime \in IdleTimes : WorkerComplete(w, t, idleTime)
  \/ \E w \in DOMAIN threads : \E t \in DOMAIN threads[w].exec : WorkerError(w, t)

ProtocolSpec == ProtocolInit /\ [][ProtocolNext]_vars

\* The application also asks for the status of ids, some of which no
\* submitTask call has returned
QueryIds == 0..(MaxTasks + 1)

QueryInit == InitState(Config(1, 2, FALSE), Env({TimedLow}, MaxTasks))

QueryNext ==
  \/ Next
  \/ \E taskId \in QueryIds : GetTaskStatusCall(taskId)

QuerySpec == QueryInit /\ [][QueryNext]_vars

\* A pool of two that is shut down at some point; submitTask is not called
\* once shutdown has resolved
ShutInit == InitState(Config(2, 2, TRUE), Env({TimedLow}, MaxTasks - 1))

ShutNext ==
  \/ closing.stage # "done" /\ \E tpl \in env.templates : SubmitTask(tpl)
  \/ ShutdownCall
  \/ Microtask
  \/ \E w \in DOMAIN threads : \E t \in DOMAIN threads[w].exec : WorkerProgress(w, t)
  \/ \E w \in DOMAIN threads : \E t \in DOMAIN threads[w].exec :
       \E idleTime \in IdleTimes : WorkerComplete(w, t, idleTime)
  \/ \E w \in DOMAIN threads : \E t \in DOMAIN threads[w].exec : WorkerError(w, t)
  \/ \E w \in DOMAIN threads : WorkerCrash(w)
  \/ \E w \in DOMAIN threads : WorkerExit(w)
  \/ AwaitedWorkerExit
  \/ \E tm \in timers : TimerFire(tm)

ShutSpec == ShutInit /\ [][ShutNext]_vars

\* A pool of one that is shut down at some point, with tasks waiting in the
\* queue, and status queries at any time; without auto-scaling no worker
\* leaves the pool while shutdown awaits its terminate()
CloseInit == InitState(Config(1, 2, FALSE), Env({PlainLow}, MaxTasks - 1))

CloseNext ==
  \/ closing.stage # "done" /\ \E tpl \in env.templates : SubmitTask(tpl)
  \/ ShutdownCall
  \/ Microtask
  \/ \E w \in DOMAIN threads : \E t \in DOMAIN threads[w].exec :
       \E idleTime \in IdleTimes : WorkerComplete(w, t, idleTime)
  \/ \E w \in DOMAIN threads : WorkerExit(w)
  \/ \E taskId \in QueryIds : GetTaskStatusCall(taskId)

CloseSpec == CloseInit /\ [][CloseNext]_vars

\* =================================================================
\* The goal loop (src/src/agents/goal-loop.ts)
\* =================================================================

\* ------------------------------------------------------- inputs (small sets)
\* GoalSchedule.  interval = 0 and maxRuns = 0 stand for absent fields; a
\* goal without a schedule has NoSchedule.
Schedule(nextRun, interval, maxRuns) ==
  [has |-> TRUE, nextRun |-> nextRun, interval |-> interval,
   maxRuns |-> maxRuns, runsCompleted |-> 0]

NoSchedule ==
  [has |-> FALSE, nextRun |-> 0, interval |-> 0, maxRuns |-> 0, runsCompleted |-> 0]

\* What addGoal is handed.  action is what the action of the goal does:
\* "ok" resolves with { success: true }, "once" with shouldReschedule: false,
\* "fail" rejects.  maxRetries = 0 stands for an absent maxRetries, onError
\* tells whether the goal has an onError callback (which resolves).
GoalInput(tr, pr, sch, act, mr, oe) ==
  [trigger |-> tr, priority |-> pr, schedule |-> sch, action |-> act,
   maxRetries |-> mr, onError |-> oe]

\* created at time 0, before the loop is
createTimeBasedGoal(action, priority, interval, startDelay, maxRuns) ==
  GoalInput("time", priority, Schedule(0 + startDelay, interval, maxRuns), action, 0, FALSE)

createConditionBasedGoal(action, priority) ==
  GoalInput("condition", priority, NoSchedule, action, 0, FALSE)

EventGoal(action, priority, maxRetries, onError) ==
  GoalInput("event", priority, NoSchedule, action, maxRetries, onError)

\* GoalLoopConfig
GoalLoopConfig(mc, mt) == [maxConcurrentGoals |-> mc, maxTotalGoals |-> mt]

\* The state after `new GoalLoop(config)`, with the goals the application
\* has to add (inputs)
NewGoalLoop(config, inputs) ==
  [config |-> config,
   inputs |-> inputs,
   goals |-> {},                \* this.goals: its keys; ids are given out in
                                \* ascending order, which is the Map's order
   objects |-> <<>>,            \* the Goal objects ever created, by id
   running |-> FALSE,           \* this.running
   currentlyExecuting |-> {},   \* this.currentlyExecuting
   loops |-> <<>>,              \* one per start() call: where its loop stands
   stops |-> 0,                 \* stop() calls asleep in their wait loop
   stopped |-> FALSE,           \* a stop() call has resolved and start() was
                                \* not called since
   execs |-> <<>>,              \* executeGoal calls in flight (a bag)
   now |-> 0,                   \* Date.now()
   started |-> <<>>,            \* per goal: number of times its action was called
   failed |-> <<>>,             \* per goal: number of times its action rejected
   out |-> <<>>]                \* events emitted by the last step

GCur == [goalLoop EXCEPT !.out = <<>>]

GCommit(s) ==
  /\ goalLoop' = s
  /\ UNCHANGED <<orchestrator, continuousContext, selfModification>>
  \* the caps of the unbounded counters
  /\ Cardinality(DOMAIN s.objects) <= MaxGoals + 1
  /\ \A id \in DOMAIN s.started : s.started[id] <= MaxStarts
  /\ s.now <= MaxNow
  /\ Len(s.loops) <= MaxLoops
  /\ s.stops <= MaxLoops

\* ------------------------------------------------------- goal loop code
order(priority) ==
  CASE priority = "critical" -> 4
    [] priority = "high" -> 3
    [] priority = "normal" -> 2
    [] priority = "low" -> 1

comparePriority(a, b) == order(b) - order(a)

\* cond is what goal.condition() returns when it is called
isGoalReady(s, id, cond) ==
  LET goal == s.objects[id]
  IN CASE goal.trigger = "time" -> goal.schedule.has /\ s.now >= goal.schedule.nextRun
       [] goal.trigger = "condition" -> cond
       [] OTHER -> FALSE

\* ready.sort(comparePriority): Array.prototype.sort is stable
RECURSIVE SortReady(_, _)
SortReady(s, ready) ==
  IF ready = <<>> THEN <<>>
  ELSE LET last == ready[Len(ready)]
           rest == SortReady(s, SubSeq(ready, 1, Len(ready) - 1))
           before == SelectSeq(rest, LAMBDA id :
                       comparePriority(s.objects[id].priority, s.objects[last].priority) <= 0)
           after == SelectSeq(rest, LAMBDA id :
                       comparePriority(s.objects[id].priority, s.objects[last].priority) > 0)
       IN before \o <<last>> \o after

\* getReadyGoals, from the goal after `after` in the order of the Map up to
\* its next await (of isGoalReady, which has been evaluated) or its return
getReadyGoals(s, l, after, cond) ==
  LET todo == {id \in s.goals : /\ id > after
                                /\ s.objects[id].enabled
                                /\ id \notin s.currentlyExecuting}
      goal == MinOf(todo)
  IN IF todo # {}
     THEN [s EXCEPT !.loops[l].pc = "getReadyGoals",
                    !.loops[l].goal = goal,
                    !.loops[l].isReady = isGoalReady(s, goal, cond)]
     ELSE [s EXCEPT !.loops[l].pc = "tick",
                    !.loops[l].goal = 0,
                    !.loops[l].isReady = FALSE,
                    !.loops[l].ready = SortReady(s, @)]

\* executeGoal up to its await of goal.action()
executeGoal(s, id) ==
  Emit([s EXCEPT !.currentlyExecuting = @ \cup {id},
                 !.execs = BagAdd(@, [goal |-> id, stage |-> "action"]),
                 !.started[id] = @ + 1],
       "goalStarted", id)

updateSchedule(s, id, shouldReschedule) ==
  LET schedule == s.objects[id].schedule
      s1 == [s EXCEPT !.objects[id].schedule.runsCompleted = @ + 1]
  IN IF ~schedule.has THEN s
     ELSE IF shouldReschedule /\ schedule.interval # 0
          THEN [s1 EXCEPT !.objects[id].schedule.nextRun = s.now + schedule.interval]
          ELSE s1

\* the finally block of executeGoal
executeGoalFinally(s, id, stage) ==
  [s EXCEPT !.currentlyExecuting = @ \ {id},
            !.execs = BagRemove(@, [goal |-> id, stage |-> stage])]

\* executeGoal after goal.action() has resolved (lastRun is read nowhere)
executeGoalResolved(s, id, shouldReschedule) ==
  LET s1 == Emit([s EXCEPT !.objects[id].retries = 0], "goalCompleted", id)
      s2 == IF s1.objects[id].schedule.has THEN updateSchedule(s1, id, shouldReschedule) ELSE s1
      schedule == s2.objects[id].schedule
      s3 == IF schedule.has /\ schedule.maxRuns # 0 /\ schedule.runsCompleted >= schedule.maxRuns
            THEN [s2 EXCEPT !.objects[id].enabled = FALSE]
            ELSE s2
  IN executeGoalFinally(s3, id, "action")

\* Mutant of handleGoalErrorEnd: one failure more is let through
handleGoalErrorLenient(s, id) ==
  LET goal == s.objects[id]
  IN IF goal.maxRetries # 0 /\ goal.retries > goal.maxRetries
     THEN [s EXCEPT !.objects[id].enabled = FALSE]
     ELSE s

\* handleGoalError after its await of goal.onError
handleGoalErrorEnd(s, id) ==
  LET goal == s.objects[id]
  IN IF goal.maxRetries # 0 /\ goal.retries >= goal.maxRetries
     THEN [s EXCEPT !.objects[id].enabled = FALSE]
     ELSE s

\* executeGoal after goal.action() has rejected: handleGoalError up to its
\* await of goal.onError, or to the end of executeGoal
handleGoalError(s, id) ==
  LET s1 == Emit([s EXCEPT !.objects[id].retries = @ + 1,
                           !.failed[id] = @ + 1], "goalError", id)
  IN IF s1.objects[id].onError
     THEN [s1 EXCEPT !.execs = BagAdd(BagRemove(@, [goal |-> id, stage |-> "action"]),
                                      [goal |-> id, stage |-> "onError"])]
     ELSE executeGoalFinally(handleGoalErrorEnd(s1, id), id, "action")

\* Mutant of tick: the concurrency limit is not looked at
RECURSIVE tickUnlimited(_, _)
tickUnlimited(s, readyGoals) ==
  IF readyGoals = <<>> THEN s
  ELSE tickUnlimited(executeGoal(s, Head(readyGoals)), Tail(readyGoals))

\* The for loop of tick over the goals getReadyGoals returned
RECURSIVE tick(_, _)
tick(s, readyGoals) ==
  IF readyGoals = <<>> THEN s
  ELSE IF Cardinality(s.currentlyExecuting) >= s.config.maxConcurrentGoals THEN s
  ELSE tick(executeGoal(s, Head(readyGoals)), Tail(readyGoals))

\* Mutant of addGoal: the limit is tested off by one
addGoalOffByOne(s, input) ==
  IF Cardinality(s.goals) > s.config.maxTotalGoals
  THEN Emit(s, "throw:Maximum goals reached", 0)
  ELSE LET id == Cardinality(DOMAIN s.objects) + 1
           fullGoal == [trigger |-> input.trigger, priority |-> input.priority,
                        schedule |-> input.schedule, action |-> input.action,
                        maxRetries |-> input.maxRetries, onError |-> input.onError,
                        enabled |-> TRUE, retries |-> 0]
       IN Emit([s EXCEPT !.goals = @ \cup {id},
                         !.objects = Put(@, id, fullGoal),
                         !.started = Put(@, id, 0),
                         !.failed = Put(@, id, 0)], "goalAdded", id)

\* ids stand for `goal_${Date.now()}_${random}`: fresh, here in ascending order
addGoal(s, input) ==
  IF Cardinality(s.goals) >= s.config.maxTotalGoals
  THEN Emit(s, "throw:Maximum goals reached", 0)
  ELSE LET id == Cardinality(DOMAIN s.objects) + 1
           fullGoal == [trigger |-> input.trigger, priority |-> input.priority,
                        schedule |-> input.schedule, action |-> input.action,
                        maxRetries |-> input.maxRetries, onError |-> input.onError,
                        enabled |-> TRUE, retries |-> 0]
       IN Emit([s EXCEPT !.goals = @ \cup {id},
                         !.objects = Put(@, id, fullGoal),
                         !.started = Put(@, id, 0),
                         !.failed = Put(@, id, 0)], "goalAdded", id)

removeGoal(s, id) ==
  IF id \notin s.goals THEN Emit(s, "return:false", id)
  ELSE Emit([s EXCEPT !.goals = @ \ {id}], "goalRemoved", id)

setGoalEnabled(s, id, enabled) ==
  IF id \notin s.goals THEN Emit(s, "return:false", id)
  ELSE [s EXCEPT !.objects[id].enabled = enabled]

triggerGoal(s, id) ==
  IF id \notin s.goals THEN Emit(s, "throw:Goal not found", id)
  ELSE IF s.objects[id].trigger # "event" THEN Emit(s, "throw:not event-triggered", id)
  ELSE executeGoal(s, id)

\* ------------------------------------------------------- goal loop steps
GoalIds == 1..(MaxGoals + 1)

AddGoal(input) == GCommit(addGoal(GCur, input))

RemoveGoal(id) == GCommit(removeGoal(GCur, id))

SetGoalEnabled(id, enabled) == GCommit(setGoalEnabled(GCur, id, enabled))

TriggerGoal(id) == GCommit(triggerGoal(GCur, id))

\* start(), up to the first await of its first tick
Start(cond) ==
  IF goalLoop.running
  THEN GCommit(Emit(GCur, "throw:GoalLoop is already running", 0))
  ELSE LET l == Len(goalLoop.loops) + 1
           s1 == [GCur EXCEPT !.running = TRUE,
                              !.stopped = FALSE,
                              !.loops = Append(@, [pc |-> "start", goal |-> 0,
                                                   isReady |-> FALSE, ready |-> <<>>])]
       IN GCommit(getReadyGoals(Emit(s1, "started", l), l, 0, cond))

\* stop(), up to its first sleep or its end
Stop ==
  LET s1 == [GCur EXCEPT !.running = FALSE]
  IN IF s1.currentlyExecuting # {}
     THEN GCommit([s1 EXCEPT !.stops = @ + 1])
     ELSE GCommit(Emit([s1 EXCEPT !.stopped = TRUE], "stop:resolved", 0))

\* No continuation of the loop is in the microtask queue: every loop sleeps,
\* has ended, or awaits the condition of a goal, which may take its time.
\* Timers fire in such states only.
NoMicrotask ==
  \A l \in DOMAIN goalLoop.loops :
    \/ goalLoop.loops[l].pc \in {"sleep", "stopped"}
    \/ /\ goalLoop.loops[l].pc = "getReadyGoals"
       /\ goalLoop.objects[goalLoop.loops[l].goal].trigger = "condition"

\* a stop() call wakes from sleep(100)
StopWakes ==
  /\ NoMicrotask
  /\ goalLoop.stops > 0
  /\ goalLoop.currentlyExecuting = {}
  /\ GCommit(Emit([GCur EXCEPT !.stops = @ - 1, !.stopped = TRUE], "stop:resolved", 0))

\* getReadyGoals of loop l goes on after `await this.isGoalReady(goal)`
GetReadyGoalsStep(l, cond) ==
  /\ l \in DOMAIN goalLoop.loops /\ goalLoop.loops[l].pc = "getReadyGoals"
  /\ LET loop == goalLoop.loops[l]
         s1 == IF loop.isReady
               THEN [GCur EXCEPT !.loops[l].ready = Append(@, loop.goal)]
               ELSE GCur
     IN GCommit(getReadyGoals(s1, l, loop.goal, cond))

\* tick of loop l goes on after `await this.getReadyGoals()`, to its end;
\* start then sleeps
TickStep(l) ==
  /\ l \in DOMAIN goalLoop.loops /\ goalLoop.loops[l].pc = "tick"
  /\ GCommit([tick(GCur, goalLoop.loops[l].ready)
                EXCEPT !.loops[l].pc = "sleep", !.loops[l].ready = <<>>])

\* start goes on after `await this.sleep(tickInterval)`
SleepEnds(l, cond) ==
  /\ NoMicrotask
  /\ l \in DOMAIN goalLoop.loops /\ goalLoop.loops[l].pc = "sleep"
  /\ IF goalLoop.running
     THEN GCommit(getReadyGoals(GCur, l, 0, cond))
     ELSE GCommit(Emit([GCur EXCEPT !.loops[l].pc = "stopped"], "stopped", l))

\* the promise of goal.action() resolves
ActionResolves(id) ==
  /\ [goal |-> id, stage |-> "action"] \in DOMAIN goalLoop.execs
  /\ goalLoop.objects[id].action \in {"ok", "once"}
  /\ GCommit(executeGoalResolved(GCur, id, goalLoop.objects[id].action = "ok"))

\* the promise of goal.action() rejects
ActionRejects(id) ==
  /\ [goal |-> id, stage |-> "action"] \in DOMAIN goalLoop.execs
  /\ goalLoop.objects[id].action = "fail"
  /\ GCommit(handleGoalError(GCur, id))

\* the promise of goal.onError(error) resolves
OnErrorResolves(id) ==
  /\ [goal |-> id, stage |-> "onError"] \in DOMAIN goalLoop.execs
  /\ GCommit(executeGoalFinally(handleGoalErrorEnd(GCur, id), id, "onError"))

\* time passes
ClockTicks == GCommit([GCur EXCEPT !.now = @ + 1])

GoalInit(config, inputs) ==
  /\ Constructed(Config(1, 1, FALSE), Env({}, 0))
  /\ goalLoop = NewGoalLoop(config, inputs)
  /\ continuousContext = <<>>
  /\ selfModification = <<>>

\* ------------------------------------------------------- goal loop specifications
\* A loop that runs one goal at a time, with a recurring goal and an event
\* goal that fails, has an onError callback and is given MaxRuns retries.
\* The application adds goals, starts the loop, triggers and disables goals.
TriggerInit ==
  GoalInit(GoalLoopConfig(1, MaxGoals),
           { createTimeBasedGoal("ok", "normal", 1, 0, 0),
             EventGoal("fail", "high", MaxRuns, TRUE) })

TriggerNext ==
  \/ \E input \in goalLoop.inputs : AddGoal(input)
  \/ \E id \in GoalIds : \E enabled \in BOOLEAN : SetGoalEnabled(id, enabled)
  \/ \E id \in GoalIds : TriggerGoal(id)
  \/ \E cond \in BOOLEAN : Start(cond)
  \/ \E l \in DOMAIN goalLoop.loops : \E cond \in BOOLEAN : GetReadyGoalsStep(l, cond)
  \/ \E l \in DOMAIN goalLoop.loops : TickStep(l)
  \/ \E l \in DOMAIN goalLoop.loops : \E cond \in BOOLEAN : SleepEnds(l, cond)
  \/ \E id \in DOMAIN goalLoop.objects : ActionResolves(id)
  \/ \E id \in DOMAIN goalLoop.objects : ActionRejects(id)
  \/ \E id \in DOMAIN goalLoop.objects : OnErrorResolves(id)
  \/ ClockTicks

TriggerSpec == TriggerInit /\ [][TriggerNext]_vars

\* A loop with the default room for concurrent goals and a recurring goal
\* limited to MaxRuns runs; the application stops and restarts the loop.
RestartInit ==
  GoalInit(GoalLoopConfig(MaxGoals, MaxGoals),
           { createTimeBasedGoal("ok", "normal", 1, 0, MaxRuns) })

RestartNext ==
  \/ \E input \in goalLoop.inputs : AddGoal(input)
  \/ \E cond \in BOOLEAN : Start(cond)
  \/ Stop
  \/ StopWakes
  \/ \E l \in DOMAIN goalLoop.loops : \E cond \in BOOLEAN : GetReadyGoalsStep(l, cond)
  \/ \E l \in DOMAIN goalLoop.loops : TickStep(l)
  \/ \E l \in DOMAIN goalLoop.loops : \E cond \in BOOLEAN : SleepEnds(l, cond)
  \/ \E id \in DOMAIN goalLoop.objects : ActionResolves(id)
  \/ ClockTicks

RestartSpec == RestartInit /\ [][RestartNext]_vars

\* A registry of MaxGoals goals at most; the application adds, removes and
\* triggers goals, whose actions are still under way.
RegistryInit ==
  GoalInit(GoalLoopConfig(1, MaxGoals), { EventGoal("ok", "normal", 0, FALSE) })

RegistryNext ==
  \/ \E input \in goalLoop.inputs : AddGoal(input)
  \/ \E id \in GoalIds : RemoveGoal(id)
  \/ \E id \in GoalIds : TriggerGoal(id)

RegistrySpec == RegistryInit /\ [][RegistryNext]_vars

\* =================================================================
\* The memory context (src/src/memory/continuous-context.ts)
\* =================================================================

\* ------------------------------------------------------- inputs (small sets)
\* ContinuousContextConfig, the fields autoInject reads
ContextConfig(maxSnippets, minRelevanceScore, enableCache, cacheTTL) ==
  [maxSnippets |-> maxSnippets, minRelevanceScore |-> minRelevanceScore,
   enableCache |-> enableCache, cacheTTL |-> cacheTTL]

Queries == {"a", "b"}

\* An option that is not given (undefined)
Absent == -1

\* The options of an autoInject call
InjectOptions == [maxResults : {Absent, MaxResults}, minScore : {Absent, 0, MaxScore}]

\* A memory search result as autoInject maps it to a ContextSnippet
Snippet(query, score) == [path |-> query, score |-> score]

RECURSIVE Best(_, _, _)
\* The results of query with a score in minScore..top, best first, at most
\* limit of them
Best(query, top, bound) ==
  IF bound.limit <= 0 \/ top < bound.minScore THEN <<>>
  ELSE <<Snippet(query, top)>> \o Best(query, top - 1, [bound EXCEPT !.limit = @ - 1])

\* memoryManager.search: the memory holds one result of every score for
\* every query; the search honours limit and minScore.
search(query, limit, minScore) ==
  Best(query, MaxScore, [limit |-> limit, minScore |-> minScore])

\* ------------------------------------------------------- state
NewContinuousContext(config) ==
  [config |-> config,
   initialized |-> FALSE,
   queryCache |-> <<>>,     \* this.queryCache: query -> CacheEntry
   pending |-> <<>>,        \* autoInject calls that await memoryManager.search
   now |-> 0,               \* Date.now()
   out |-> <<>>]            \* what the last step returned, threw or emitted

CCur == [continuousContext EXCEPT !.out = <<>>]

CCommit(s) ==
  /\ continuousContext' = s
  /\ UNCHANGED <<orchestrator, goalLoop, selfModification>>
  \* the caps of the unbounded counters
  /\ s.now <= MaxNow
  /\ Len(s.pending) <= MaxPending

\* ------------------------------------------------------- memory context code
\* The first value if it is given, else the second (the ?? operator)
Coalesce(given, default) == IF given = Absent THEN default ELSE given

\* getCached without its deletion of an expired entry: a sequence with the
\* entry's snippets, or the empty sequence for null
getCached(s, query) ==
  IF query \notin DOMAIN s.queryCache THEN <<>>
  ELSE IF s.now - s.queryCache[query].timestamp > s.config.cacheTTL THEN <<>>
  ELSE <<s.queryCache[query].snippets>>

\* The deletion getCached makes when it finds the entry expired
dropExpired(s, query) ==
  IF query \in DOMAIN s.queryCache
       /\ s.now - s.queryCache[query].timestamp > s.config.cacheTTL
  THEN [s EXCEPT !.queryCache = Without(@, query)]
  ELSE s

RECURSIVE dropOldest(_, _)
\* The cache without its n oldest entries
dropOldest(c, n) ==
  IF n = 0 \/ DOMAIN c = {} THEN c
  ELSE LET q == CHOOSE x \in DOMAIN c : \A y \in DOMAIN c : c[x].timestamp <= c[y].timestamp
       IN dropOldest(Without(c, q), n - 1)

\* cache(query, snippets)
cache(s, query, snippets) ==
  LET c == Put(s.queryCache, query, [snippets |-> snippets, timestamp |-> s.now])
  IN [s EXCEPT !.queryCache = IF Cardinality(DOMAIN c) > CacheLimit
                              THEN dropOldest(c, CacheEvicted) ELSE c]

\* What a call returns, with the call it answers
Return(s, query, options, snippets) ==
  [s EXCEPT !.out = Append(@, <<"return", [query |-> query, options |-> options,
                                           snippets |-> snippets]>>)]

\* autoInject up to its await of memoryManager.search
autoInject(s, query, options) ==
  LET cached == getCached(s, query)
      s1 == dropExpired(s, query)
  IN IF ~s.initialized
     THEN Emit(s, "throw:ContinuousContext not initialized", query)
     ELSE IF s.config.enableCache /\ cached # <<>>
     THEN Return(Emit(s1, "cacheHit", query), query, options, cached[1])
     ELSE [(IF s.config.enableCache THEN s1 ELSE s)
             EXCEPT !.pending = Append(@, [query |-> query, options |-> options])]

\* autoInject after memoryManager.search has resolved, its results mapped to
\* snippets
autoInjectResolved(s, call, snippets) ==
  LET s1 == IF s.config.enableCache THEN cache(s, call.query, snippets) ELSE s
  IN Return(Emit(s1, "autoInjected", call.query), call.query, call.options, snippets)

\* autoInject after memoryManager.search has rejected
autoInjectRejected(s, call) ==
  Return(Emit(s, "error", call.query), call.query, call.options, <<>>)

\* clearCache()
clearCache(s) == Emit([s EXCEPT !.queryCache = <<>>], "cacheCleared", 0)

\* ------------------------------------------------------- memory context actions
\* initialize(workspaceDir), with core files that load
Initialize ==
  /\ ~continuousContext.initialized
  /\ CCommit(Emit([CCur EXCEPT !.initialized = TRUE], "initialized", 0))

AutoInject(query, options) == CCommit(autoInject(CCur, query, options))

\* The search of the i-th waiting call resolves
SearchResolves(i) ==
  /\ i \in 1..Len(continuousContext.pending)
  /\ LET call == continuousContext.pending[i]
         s == [CCur EXCEPT !.pending = SubSeq(@, 1, i - 1) \o SubSeq(@, i + 1, Len(@))]
     IN CCommit(autoInjectResolved(s, call,
                  search(call.query,
                         Coalesce(call.options.maxResults, s.config.maxSnippets),
                         Coalesce(call.options.minScore, s.config.minRelevanceScore))))

\* The search of the i-th waiting call rejects
SearchRejects(i) ==
  /\ i \in 1..Len(continuousContext.pending)
  /\ LET call == continuousContext.pending[i]
         s == [CCur EXCEPT !.pending = SubSeq(@, 1, i - 1) \o SubSeq(@, i + 1, Len(@))]
     IN CCommit(autoInjectRejected(s, call))

ClearCache == CCommit(clearCache(CCur))

\* time passes
ContextClockTicks == CCommit([CCur EXCEPT !.now = @ + 1])

ContextInit ==
  /\ Constructed(Config(1, 1, FALSE), Env({}, 0))
  /\ goalLoop = <<>>
  /\ selfModification = <<>>
  /\ \E enableCache \in BOOLEAN :
       continuousContext = NewContinuousContext(ContextConfig(1, 1, enableCache, 1))

ContextNext ==
  \/ Initialize
  \/ \E query \in Queries : \E options \in InjectOptions : AutoInject(query, options)
  \/ \E i \in 1..MaxPending : SearchResolves(i)
  \/ \E i \in 1..MaxPending : SearchRejects(i)
  \/ ClearCache
  \/ ContextClockTicks

ContextSpec == ContextInit /\ [][ContextNext]_vars

\* =================================================================
\* The personality of the agent (src/src/agents/self-modification.ts)
\* =================================================================

\* ------------------------------------------------------- inputs (small sets)
\* PersonalityConfig, two of its fields
Personality(bluntness, thinking) == [bluntness |-> bluntness, thinking |-> thinking]

\* Partial<PersonalityConfig>: a patch has some of the fields
Patches ==
  { [bluntness |-> 1], [thinking |-> "high"], [bluntness |-> 0, thinking |-> "low"] }

\* ------------------------------------------------------- state
\* was and undone are history variables: the values currentPersonality has
\* had, oldest first, and those of them that no rollback has gone back over.
NewSelfModification(initialPersonality, enableHotReload) ==
  [config |-> [enableHotReload |-> enableHotReload],
   currentPersonality |-> initialPersonality,
   personalityHistory |-> <<initialPersonality>>,
   pending |-> <<>>,        \* updatePersonality calls that await backupPersonality
   was |-> <<initialPersonality>>,
   undone |-> <<initialPersonality>>,
   out |-> <<>>]            \* what the last step threw or emitted

SCur == [selfModification EXCEPT !.out = <<>>]

SCommit(s) ==
  /\ selfModification' = s
  /\ UNCHANGED <<orchestrator, goalLoop, continuousContext>>
  \* the caps of the unbounded counters
  /\ Len(s.was) <= MaxChanges + 1
  /\ Len(s.pending) <= 1

\* ------------------------------------------------------- personality code
\* { ...personality, ...patch }
Spread(personality, patch) ==
  [f \in DOMAIN personality |-> IF f \in DOMAIN patch THEN patch[f] ELSE personality[f]]

\* updatePersonality after its backup: the patch is applied
applyPatch(s, patch) ==
  LET current == Spread(s.currentPersonality, patch)
  IN Emit([s EXCEPT !.currentPersonality = current,
                    !.personalityHistory = Append(@, current),
                    !.was = Append(@, current),
                    !.undone = Append(@, current)],
          "personalityUpdated", 0)

\* updatePersonality up to its await of backupPersonality
updatePersonality(s, patch, backup) ==
  IF ~s.config.enableHotReload THEN Emit(s, "throw:Hot-reload is disabled", 0)
  ELSE IF backup THEN Emit([s EXCEPT !.pending = Append(@, patch)], "personalityBackedUp", 0)
  ELSE applyPatch(s, patch)

rollback(s, steps) ==
  LET targetIndex == Len(s.personalityHistory) - steps - 1
      target == s.personalityHistory[targetIndex + 1]
      s1 == Emit(s, "rollback", steps)
  IN IF Len(s.personalityHistory) <= steps
     THEN Emit(s1, "throw:Not enough history to rollback", steps)
     ELSE Emit([s1 EXCEPT !.currentPersonality = target,
                          !.was = Append(@, target),
                          !.undone = SubSeq(@, 1, IF Len(@) > steps THEN Len(@) - steps ELSE 1)],
               "personalityRolledBack", steps)

\* ------------------------------------------------------- personality actions
UpdatePersonality(patch, backup) == SCommit(updatePersonality(SCur, patch, backup))

\* backupPersonality has returned: the update that awaited it goes on
BackupDone ==
  /\ selfModification.pending # <<>>
  /\ SCommit(applyPatch([SCur EXCEPT !.pending = Tail(@)], Head(selfModification.pending)))

Rollback(steps) == SCommit(rollback(SCur, steps))

PersonalityInit ==
  /\ Constructed(Config(1, 1, FALSE), Env({}, 0))
  /\ goalLoop = <<>>
  /\ continuousContext = <<>>
  /\ \E enableHotReload \in BOOLEAN :
       selfModification = NewSelfModification(Personality(0, "low"), enableHotReload)

PersonalityNext ==
  \/ \E patch \in Patches : \E backup \in BOOLEAN : UpdatePersonality(patch, backup)
  \/ BackupDone
  \/ \E steps \in 1..MaxChanges : Rollback(steps)

PersonalitySpec == PersonalityInit /\ [][PersonalityNext]_vars

\* ------------------------------------------------------- shape of the state
\* The setInterval poll of getOrCreateWorker is never entered, and every
\* pool entry has its thread.
TypeOK ==
  /\ polling = {}
  /\ DOMAIN threads = DOMAIN workers

\* ------------------------------------------------------------- claims
TaskIds == 1..(MaxTasks + 1)

InQueue(q) == {q[i] : i \in 1..Len(q)}

AtRest == micro = <<>>

Running == {w \in DOMAIN workers : workers[w].status = "running"}

QueueFullThrown(o) == Emitted(o, "throw:Task queue full")

SubmitStep == QueueFullThrown(out') \/ Emitted(out', "taskQueued")

\* C1: the pool never holds more than maxWorkers workers, hence never more
\* than maxWorkers workers are Running.
C1_PoolWithinMaxWorkers ==
  /\ Cardinality(DOMAIN workers) <= cfg.maxWorkers
  /\ Cardinality(Running) <= cfg.maxWorkers

\* C1 witness: the pool is full, all of it is Running and a task waits
C1_Witness ==
  /\ cfg.maxWorkers = 2
  /\ Cardinality(Running) = cfg.maxWorkers
  /\ taskQueue # <<>>

\* C2: every accepted task eventually has a terminal status with a result
\* (handlers return, timers expire, no shutdown).
C2_EveryTaskEnds ==
  \A t \in TaskIds :
    (t \in DOMAIN tasks) ~> (getTaskStatus(t) \in {"completed", "error"})

\* C3: the dispatcher is never at rest with a non-empty queue and an Idle
\* worker in the pool.
C3_NoIdleWorkerWithBacklog ==
  AtRest => ~(taskQueue # <<>> /\ \E w \in DOMAIN workers : workers[w].status = "idle")

\* The tasks a step takes off the queue for their first dispatch
FirstDispatched ==
  {t \in DOMAIN tasks' :
     /\ dispatched'[t] = 0
     /\ \E i \in 1..Len(micro') : micro'[i].task = t
     /\ ~\E i \in 1..Len(micro) : micro[i].task = t}

\* C4: a task is dispatched only when no queued task has a higher priority,
\* and none of equal priority was submitted before it.
C4_PriorityThenFifo ==
  [][\A t \in FirstDispatched : \A u \in InQueue(taskQueue') :
       dispatched'[u] = 0 =>
         \/ tasks'[u].priority < tasks'[t].priority
         \/ tasks'[u].priority = tasks'[t].priority /\ t < u]_vars

\* C5: the queue never holds more than taskQueueSize tasks
C5_QueueWithinSize == Len(taskQueue) <= cfg.taskQueueSize

\* C6: queued plus active tasks never exceed taskQueueSize + maxWorkers
C6_CapacityInvariant ==
  Len(taskQueue) + Cardinality(activeTasks) <= cfg.taskQueueSize + cfg.maxWorkers

C8_NthPlusOneRefused ==
  [][(/\ cfg.maxWorkers = 1
      /\ Cardinality(DOMAIN tasks) = cfg.taskQueueSize
      /\ DOMAIN results = {}
      /\ AtRest
      /\ SubmitStep) => QueueFullThrown(out')]_vars

\* C9: no two tasks are outstanding on the same worker at once
C9_OneTaskPerWorker ==
  \A t \in activeTasks : \A u \in activeTasks :
    (t # u /\ sentTo[t] # 0) => sentTo[t] # sentTo[u]

\* A step in which the timeout of a running task expires
TimeoutOf(t) ==
  /\ AtRest
  /\ t \in activeTasks
  /\ \E tm \in timers : tm.task = t /\ tm \notin timers'

\* C10: when the timer of a running task fires, the task is reported with
\* the distinct status Terminated and its worker is Idle in the pool.
C10_TimeoutReportsTerminated ==
  [][\A t \in DOMAIN tasks :
       TimeoutOf(t) =>
         /\ getTaskStatus(t)' = "terminated"
         /\ sentTo[t] \in DOMAIN workers'
         /\ workers'[sentTo[t]].status = "idle"]_vars


\* The tasks whose attempt was ended by its timeout and that nothing has
\* dispatched again since
TimedOut == {t \in DOMAIN results : results[t].error = "timeout" /\ t \notin activeTasks}

\* A step that delivers the complete or error message of task t from worker w
TerminalMessage(w, t) ==
  /\ AtRest
  /\ w \in DOMAIN threads /\ t \in DOMAIN threads[w].exec
  /\ w \in DOMAIN threads' /\ threads'[w].exec = BagRemove(threads[w].exec, t)
  /\ threads'[w].crashed = threads[w].crashed

\* C11: the complete or error message of a task that its timeout has already
\* terminated changes no task's result or status and no worker's state.
C11_LateMessageIsNoOp ==
  [][\A w \in DOMAIN threads : \A t \in TimedOut :
       TerminalMessage(w, t) =>
         UNCHANGED <<results, activeTasks, taskQueue, workers>>]_vars


\* The tasks that are through: a result is recorded and nothing will
\* dispatch them again
Settled ==
  {t \in DOMAIN results :
     /\ t \notin activeTasks
     /\ t \notin InQueue(taskQueue)
     /\ ~\E i \in 1..Len(micro) : micro[i].task = t}

\* C12: a task with retryOnError and maxRetries = n whose handler always
\* throws is executed exactly n + 1 times and ends with a failure result
\* (n = 2: three attempts).
C12_ThrowingTaskRunsNPlusOneTimes ==
  \A t \in Settled :
    (tasks[t].retryOnError /\ tasks[t].maxRetries > 0) =>
      /\ dispatched[t] = tasks[t].maxRetries + 1
      /\ getTaskStatus(t) = "error"


\* C13: a task with maxRetries = n is dispatched at most n + 1 times,
\* whatever ends its attempts and whichever workers run them, and once it is
\* through its failure is its recorded result.
C13_DispatchesWithinRetryBudget ==
  \A t \in DOMAIN tasks :
    tasks[t].retryOnError =>
      /\ dispatched[t] <= tasks[t].maxRetries + 1
      /\ (t \in Settled /\ dispatched[t] = tasks[t].maxRetries + 1) =>
           getTaskStatus(t) \in {"completed", "error"}


\* A step in which an attempt of task t fails: by an error message, a
\* crash or an exit of its worker (taskError) or by its timeout
\* (taskTerminated)
AttemptFails(t) ==
  \E i \in 1..Len(out') : out'[i] \in {<<"taskError", t>>, <<"taskTerminated", t>>}

\* The task a step has put first in line: at the head of the queue, or taken
\* off it for dispatch in the same step
FirstInLine(t) ==
  \/ taskQueue' # <<>> /\ Head(taskQueue') = t
  \/ /\ \E i \in 1..Len(micro') : micro'[i].task = t
     /\ \A u \in InQueue(taskQueue) : u \in InQueue(taskQueue')

\* C14: when an attempt of a task with retryOnError fails with fewer than
\* maxRetries retries used, the task goes back to the front of the queue,
\* ahead of every task already queued.
C14_FailedAttemptRequeuedFirst ==
  [][\A t \in DOMAIN tasks :
       (/\ AttemptFails(t)
        /\ tasks[t].retryOnError
        /\ dispatched[t] - 1 < tasks[t].maxRetries) => FirstInLine(t)]_vars


\* The tasks with a retry pending: an attempt has failed and the task waits
\* in the queue, or on its way to a worker, for the next one
RetryPending ==
  {t \in DOMAIN tasks :
     /\ dispatched[t] >= 1
     /\ t \notin activeTasks
     /\ \/ t \in InQueue(taskQueue)
        \/ \E i \in 1..Len(micro) : micro[i].task = t}

\* C15: while a retry of a task is pending, no result is recorded for it and
\* getTaskStatus(task) is not a terminal status.
C15_NoResultWhileRetryPending ==
  \A t \in RetryPending :
    /\ t \notin DOMAIN results
    /\ getTaskStatus(t) \notin {"completed", "error"}


\* C16: a result that getResult has returned stays: every later getResult
\* returns the same value and getTaskStatus the same terminal status.
C16_ResultIsDurable ==
  [][\A t \in DOMAIN results :
       /\ t \in DOMAIN results'
       /\ results'[t] = results[t]
       /\ getTaskStatus(t) \in {"completed", "error"} =>
            getTaskStatus(t)' = getTaskStatus(t)]_vars


\* The place of a status in Queued -> Running -> terminal
StatusRank(st) ==
  CASE st = "queued" -> 1
    [] st = "running" -> 2
    [] OTHER -> 3

\* C17: the statuses getTaskStatus reports for a task only move forward along
\* queued, running, terminal; a terminal status does not change; a timeout
\* ends a task as terminated and nothing else does.  (The moments at which a
\* submitted task is reported 'unknown' are left out of the comparison.)
C17_StatusMovesForward ==
  [][\A t \in DOMAIN tasks :
       LET a == getTaskStatus(t)
           b == getTaskStatus(t)'
       IN (a # "unknown" /\ b # "unknown" /\ a # b) =>
            /\ StatusRank(b) > StatusRank(a)
            /\ b \in {"completed", "error"} => ~TimeoutOf(t)
            /\ b = "terminated" => TimeoutOf(t)]_vars


\* A step that handles the 'exit' event of worker w
ExitOf(w) == \E i \in 1..Len(out') : out'[i] = <<"workerExited", w>>

\* C18: when the thread of a worker has died and exits, every task it was
\* sent and that is still active gets a failure result and leaves
\* activeTasks, the worker leaves the pool and nothing is thrown.
C18_ExitFailsHeldTask ==
  [][\A w \in DOMAIN workers :
       (ExitOf(w) /\ threads[w].crashed) =>
         /\ w \notin DOMAIN workers'
         /\ ~QueueFullThrown(out')
         /\ \A t \in activeTasks :
              sentTo[t] = w =>
                /\ t \notin activeTasks'
                /\ t \in DOMAIN results'
                /\ ~results'[t].success]_vars


\* C19: an execute message goes only to a worker that is in the pool and
\* whose thread has not crashed; a worker is created only by a dispatch.
C19_DeadWorkerNeverSelected ==
  [][/\ \A t \in DOMAIN tasks :
          dispatched'[t] > dispatched[t] =>
            /\ sentTo'[t] \in DOMAIN workers
            /\ ~threads[sentTo'[t]].crashed
     /\ Emitted(out', "workerCreated") =>
          \E i \in 1..Len(micro') : micro'[i].stage = "create"]_vars


\* A step in which auto-scaling terminates worker w
Reaped(w) == \E i \in 1..Len(out') : out'[i] = <<"workerTerminated", w>>

\* C20: a worker is terminated by auto-scaling only with enableAutoScaling
\* on, the queue empty, the idle time read above idleTimeout and at least one
\* other worker in the pool, which stays; with enableAutoScaling off a worker
\* leaves the pool only when its thread exits.
C20_ScaleDownOnlyWhenIdle ==
  [][\A w \in DOMAIN workers :
       /\ Reaped(w) =>
            /\ cfg.enableAutoScaling
            /\ taskQueue' = <<>>
            /\ \E i \in 1..Len(out') :
                 out'[i][1] = "clock:idleTime" /\ out'[i][2] > cfg.idleTimeout
            /\ w \notin DOMAIN workers'
            /\ Cardinality(DOMAIN workers') >= 1
       /\ (w \notin DOMAIN workers' /\ ~cfg.enableAutoScaling) => ExitOf(w)]_vars

\* C20 witness: an idle worker has just been terminated, the queue is empty
\* and another worker remains
C20_Witness ==
  /\ cfg.enableAutoScaling
  /\ \E i \in 1..Len(out) : out[i][1] = "workerTerminated" /\ out[i][2] \notin DOMAIN workers
  /\ taskQueue = <<>>
  /\ Cardinality(DOMAIN workers) = 1


\* C21: with enableAutoScaling on, once every submission has been made, the
\* queue is empty, no task is active and the pool holds several workers,
\* the pool eventually holds exactly one.
C21_PoolShrinksToOne ==
  (/\ cfg.enableAutoScaling
   /\ Cardinality(DOMAIN tasks) = env.submits
   /\ taskQueue = <<>> /\ activeTasks = {} /\ AtRest
   /\ Cardinality(DOMAIN workers) > 1) ~> (Cardinality(DOMAIN workers) = 1)


\* The number of executions of task t in progress on the thread of worker w
InProgress(th, w, t) ==
  IF w \in DOMAIN th /\ t \in DOMAIN th[w].exec THEN th[w].exec[t] ELSE 0

StatusAsked(taskId) ==
  /\ Len(out') = 1
  /\ out'[1][1] = "getTaskStatus"
  /\ out'[1][2][1] = taskId

\* C23: getTaskStatus with an id that no submitTask call has returned
\* returns 'unknown', throws nothing and changes no state.
C23_UnknownIdIsUnknown ==
  [][\A taskId \in QueryIds :
       (StatusAsked(taskId) /\ taskId \notin DOMAIN tasks) =>
         /\ out'[1][2][2] = "unknown"
         /\ UNCHANGED <<tasks, workers, taskQueue, activeTasks, results, nextWorkerId,
                        micro, polling, timers, threads, dispatched, sentTo>>]_vars

\* C23 witness: with tasks queued, running and finished, the status of an id
\* that was never given out has just been asked and reported unknown
C23_Witness ==
  /\ taskQueue # <<>> /\ activeTasks # {} /\ DOMAIN results # {}
  /\ Len(out) = 1
  /\ out[1][1] = "getTaskStatus"
  /\ out[1][2][1] \notin DOMAIN tasks
  /\ out[1][2][2] = "unknown"


\* C24: once shutdown() has resolved, getStatus() reports no worker and no
\* active task, in that state and in every later one, and the 'shutdown'
\* event was emitted by the step in which it resolved.
C24_ShutdownLeavesNothing ==
  [][closing'.stage = "done" =>
       /\ getStatus'.workers = 0
       /\ getStatus'.activeTasks = 0
       /\ closing.stage # "done" => Emitted(out', "shutdown")]_vars

\* C24 witness: shutdown was called with tasks queued and running and has
\* resolved; a result recorded before or during it is still there
C24_Witness ==
  /\ closing.stage = "done"
  /\ Cardinality(DOMAIN tasks) = env.submits
  /\ \E t \in DOMAIN results : results[t].error = "exit"
  /\ timers # {}


\* The action of goal id is called in this step
ActionStarted(id) == goalLoop'.started[id] > goalLoop.started[id]

\* C25: the number of goals executing at the same time never exceeds
\* maxConcurrentGoals, however ticks, completions and triggerGoal calls
\* interleave.
C25_ExecutingWithinLimit ==
  Cardinality(goalLoop.currentlyExecuting) <= goalLoop.config.maxConcurrentGoals

\* C26: once stop() has resolved and until start() is called again, running
\* is false, no goal is executing and no execution of a goal starts.
C26_NothingRunsAfterStop ==
  [][goalLoop'.stopped =>
       /\ ~goalLoop'.running
       /\ goalLoop'.currentlyExecuting = {}
       /\ \A id \in DOMAIN goalLoop.objects : ~ActionStarted(id)]_vars

\* C27: a goal with maxRetries = n whose action always fails fails n times
\* at most; the execution that disables it is the one of the n-th failure
\* and leaves retries = n; once it is disabled with its retries used up, its
\* action is not called.
C27_DisabledAfterNFailures ==
  [][\A id \in DOMAIN goalLoop.objects :
       LET goal == goalLoop.objects[id]
       IN (goal.action = "fail" /\ goal.maxRetries # 0) =>
            /\ goalLoop'.failed[id] <= goal.maxRetries
            /\ ActionStarted(id) => (goal.enabled \/ goal.retries < goal.maxRetries)
            /\ (goalLoop'.execs # goalLoop.execs /\ goal.enabled /\ ~goalLoop'.objects[id].enabled) =>
                 /\ goalLoop'.failed[id] = goal.maxRetries
                 /\ goalLoop'.objects[id].retries = goal.maxRetries]_vars

\* C28: a recurring time-based goal with maxRuns = n whose action always
\* succeeds is executed n times at most, and is disabled once it has
\* completed n runs.
C28_ExecutedMaxRunsTimes ==
  \A id \in DOMAIN goalLoop.objects :
    LET goal == goalLoop.objects[id]
    IN (goal.trigger = "time" /\ goal.schedule.has /\ goal.schedule.maxRuns # 0
          /\ goal.schedule.interval # 0 /\ goal.action = "ok") =>
         /\ goalLoop.started[id] <= goal.schedule.maxRuns
         /\ goal.schedule.runsCompleted >= goal.schedule.maxRuns => ~goal.enabled

\* C29: the action of a goal is called only while the goal is enabled,
\* whether by a tick or by triggerGoal.
C29_DisabledGoalNotExecuted ==
  [][\A id \in DOMAIN goalLoop.objects :
       ActionStarted(id) => goalLoop.objects[id].enabled]_vars


\* C30: the number of registered goals never exceeds maxTotalGoals; an
\* addGoal call at the limit throws 'Maximum goals reached' and leaves the
\* goals as they are, below the limit it adds one goal; removeGoal of a
\* registered goal takes one goal away (so that addGoal succeeds again).
C30_GoalsWithinMaxTotal ==
  [][/\ Cardinality(goalLoop'.goals) <= goalLoop.config.maxTotalGoals
     /\ (Emitted(goalLoop'.out, "goalAdded") \/ Emitted(goalLoop'.out, "throw:Maximum goals reached")) =>
          IF Cardinality(goalLoop.goals) >= goalLoop.config.maxTotalGoals
          THEN /\ Emitted(goalLoop'.out, "throw:Maximum goals reached")
               /\ goalLoop'.goals = goalLoop.goals
               /\ goalLoop'.objects = goalLoop.objects
          ELSE /\ Emitted(goalLoop'.out, "goalAdded")
               /\ Cardinality(goalLoop'.goals) = Cardinality(goalLoop.goals) + 1
               /\ goalLoop.goals \subseteq goalLoop'.goals
     /\ Emitted(goalLoop'.out, "goalRemoved") =>
          Cardinality(goalLoop'.goals) = Cardinality(goalLoop.goals) - 1]_vars

\* C30 witness: the registry was full, a goal was removed while it was
\* executing, another goal was added in its place, and the next addGoal
\* call has thrown
C30_Witness ==
  /\ Emitted(goalLoop.out, "throw:Maximum goals reached")
  /\ Cardinality(goalLoop.goals) = goalLoop.config.maxTotalGoals
  /\ Cardinality(DOMAIN goalLoop.objects) = goalLoop.config.maxTotalGoals + 1
  /\ goalLoop.currentlyExecuting \ goalLoop.goals # {}


\* The loops of start() calls that have not ended
ActiveLoops == {l \in DOMAIN goalLoop.loops : goalLoop.loops[l].pc # "stopped"}

\* C40: at most one loop of a start() call is active at any time, and a
\* start() call made while running throws and starts no loop.
C40_OneLoopAtATime ==
  [][/\ Cardinality(ActiveLoops') <= 1
     /\ Emitted(goalLoop'.out, "throw:GoalLoop is already running") =>
          goalLoop'.loops = goalLoop.loops]_vars


\* A step in which getOrCreateWorker settles on a worker for a task: the
\* call of executeTask it suspends is the last entry of the microtask queue
\* and was put there by this step, a handler or a call of the application
\* or the continuation of a processQueue loop
Selection ==
  /\ micro' # <<>>
  /\ micro'[Len(micro')].stage \in {"create", "execute"}
  /\ \/ micro' = Append(micro, micro'[Len(micro')])
     \/ /\ micro # <<>>
        /\ Head(micro).stage = "loop"
        /\ micro' = Append(Tail(micro), micro'[Len(micro')])

\* What the pool was when the step selected: a worker that auto-scaling
\* terminated after the selection was Idle in it; types and statuses of the
\* others are not written after the selection.
IdleAtSelection(x) ==
  \/ x \in DOMAIN workers' /\ workers'[x].status = "idle"
  \/ Reaped(x)

TypeAtSelection(x) == IF x \in DOMAIN workers THEN workers[x].type ELSE "none"

PoolAtSelection == DOMAIN workers' \cup {x \in DOMAIN workers : Reaped(x)}

\* C33: the worker selected for a task is an Idle worker of the task's type
\* if there is one, else an Idle worker, which takes the task's type, else
\* a new worker of that type, created only with no Idle worker in the pool
\* and fewer than maxWorkers workers.
C33_SelectionRule ==
  [][LET call == micro'[Len(micro')]
         w == call.worker
         type == tasks'[call.task].type
         others == PoolAtSelection \ {w}
     IN /\ Selection =>
             IF call.stage = "execute"
             THEN /\ w \in DOMAIN workers
                  /\ IdleAtSelection(w)
                  /\ w \in DOMAIN workers' => workers'[w].type = type
                  /\ TypeAtSelection(w) # type =>
                       \A x \in others : IdleAtSelection(x) => TypeAtSelection(x) # type
             ELSE /\ w \notin DOMAIN workers
                  /\ w \in DOMAIN workers'
                  /\ workers'[w].type = type /\ workers'[w].status = "idle"
                  /\ \A x \in others : ~IdleAtSelection(x)
                  /\ Cardinality(others) < cfg.maxWorkers
        /\ Emitted(out', "workerCreated") => (Selection /\ call.stage = "create")]_vars

\* C33 witness: with an Idle worker of each type in the pool, the worker of
\* the task's type has been selected, though it is not the first in the pool
C33_Witness ==
  /\ micro # <<>>
  /\ LET call == micro[Len(micro)]
     IN /\ call.stage = "execute"
        /\ call.worker \in DOMAIN workers
        /\ workers[call.worker].status = "idle"
        /\ workers[call.worker].type = tasks[call.task].type
        /\ \E x \in DOMAIN workers :
             /\ x < call.worker
             /\ workers[x].status = "idle"
             /\ workers[x].type # tasks[call.task].type


\* A step in which timer tm expires and task t is terminated
Terminates(tm, t) ==
  /\ tm \in timers /\ tm \notin timers'
  /\ \E i \in 1..Len(out') : out'[i] = <<"taskTerminated", t>>

\* C34: a timer that expires terminates a task only if it is the timer of
\* the task's dispatch in progress: the task is the one it was armed for,
\* in the attempt it was armed for, and still the current task of the worker
\* that attempt was sent to.
C34_TimerEndsOwnDispatchOnly ==
  [][\A tm \in timers : \A t \in DOMAIN tasks :
       Terminates(tm, t) =>
         /\ tm.task = t
         /\ tm.attempt = dispatched[t]
         /\ sentTo[t] \in DOMAIN workers
         /\ workers[sentTo[t]].currentTask = t]_vars

\* The number of taskCompleted, taskError and taskTerminated events a step
\* emits for task t
Outcomes(t) ==
  Cardinality({i \in 1..Len(out') :
                 out'[i] \in {<<"taskCompleted", t>>, <<"taskError", t>>, <<"taskTerminated", t>>}})

\* The workers that are Running task t
Holders(ws, t) == {w \in DOMAIN ws : ws[w].currentTask = t /\ ws[w].status = "running"}

\* C35: a dispatch of a task gets at most one of taskCompleted, taskError
\* and taskTerminated and its worker leaves Running for it at most once: a
\* step emits at most one such event for a task, only for a task that is
\* active and that a worker is Running, the step removes the task from
\* activeTasks and leaves no worker Running it, and a task becomes active
\* again only by a new dispatch.
C35_OneOutcomePerDispatch ==
  [][\A t \in DOMAIN tasks :
       /\ Outcomes(t) <= 1
       /\ Outcomes(t) = 1 =>
            /\ t \in activeTasks /\ t \notin activeTasks'
            /\ Holders(workers, t) # {}
            /\ Holders(workers', t) = {}
       /\ (t \in activeTasks' \ activeTasks) => dispatched'[t] = dispatched[t] + 1
       /\ (Holders(workers', t) # Holders(workers, t) /\ Holders(workers', t) # {}) =>
            dispatched'[t] = dispatched[t] + 1]_vars

\* A task that was terminated by its timeout, retried after an error and has
\* a worker thread that still holds an execution of it
C35_Witness ==
  \E t \in DOMAIN tasks :
    /\ dispatched[t] >= 2
    /\ t \in TimedOut
    /\ \E w \in DOMAIN threads : t \in DOMAIN threads[w].exec

\* C36: whenever no handler of the orchestrator is in the middle of its
\* execution, every worker of the pool has a current task exactly when its
\* status is running.
C36_CurrentTaskIffRunning ==
  AtRest => \A w \in DOMAIN workers :
              (workers[w].currentTask # 0) <=> (workers[w].status = "running")

\* A worker whose thread raised 'error' after it had completed a task is
\* left with status error and no current task
C36_Witness ==
  /\ AtRest
  /\ \E w \in DOMAIN workers : workers[w].status = "error" /\ workers[w].currentTask = 0
  /\ \E t \in DOMAIN results : results[t].success

\* A step in which the thread of worker w exits because it was sent the
\* terminate message of a timeout
ExitsOnTerminate(w) ==
  /\ ExitOf(w)
  /\ w \in DOMAIN threads /\ threads[w].term /\ ~threads[w].crashed

\* C37: a task dispatched to a worker that the timeout of an earlier task
\* had set idle is executed and gets its own outcome: the exit of the
\* worker thread on the terminate message of the earlier task fails no task,
\* and a task dispatched to a worker that was sent such a message is
\* executed by its thread.
C37_NextTaskSurvivesTerminate ==
  [][/\ \A w \in DOMAIN workers : \A t \in DOMAIN tasks :
          ExitsOnTerminate(w) =>
            ~\E i \in 1..Len(out') : out'[i] = <<"taskError", t>>
     /\ \A t \in DOMAIN tasks :
          (/\ dispatched'[t] = dispatched[t] + 1
           /\ sentTo'[t] \in DOMAIN workers'
           /\ sentTo'[t] \in DOMAIN threads
           /\ threads[sentTo'[t]].term /\ ~threads[sentTo'[t]].crashed) =>
            InProgress(threads', sentTo'[t], t) = InProgress(threads, sentTo'[t], t) + 1]_vars

\* The tasks for which processQueue has selected worker w and whose
\* executeTask has not run yet, in microtask queue m
Selected(m, w) == {m[i].task : i \in {j \in 1..Len(m) : m[j].worker = w}}

\* C38: auto-scaling terminates no worker that has a task assigned or that
\* was selected for a task whose dispatch is under way, and every task is
\* dispatched to a worker that is in the pool, so that no task stays active
\* on a worker that was removed.
C38_ScaleDownSparesSelected ==
  [][/\ \A w \in DOMAIN workers :
          Reaped(w) => (workers[w].currentTask \notin activeTasks' /\ Selected(micro', w) = {})
     /\ \A t \in DOMAIN tasks :
          dispatched'[t] = dispatched[t] + 1 => sentTo'[t] \in DOMAIN workers']_vars

\* C39: the status of a task that submitTask has accepted is never
\* reported as 'unknown', also after shutdown; stated for the states in
\* which no call of the orchestrator is suspended.
C39_AcceptedNeverUnknown ==
  [][\A taskId \in DOMAIN tasks :
       (AtRest /\ StatusAsked(taskId)) => out'[1][2][2] # "unknown"]_vars

\* A step in which an autoInject call returns
Returned == {continuousContext'.out[i][2] :
               i \in {j \in 1..Len(continuousContext'.out) :
                        continuousContext'.out[j][1] = "return"}}

\* C31: every autoInject call on an initialized context returns at most
\* maxResults snippets (config.maxSnippets when the option is not given),
\* none with a score below minScore (config.minRelevanceScore when not
\* given), whatever calls came before.
C31_WithinOptions ==
  [][\A r \in Returned :
       /\ Len(r.snippets) <= Coalesce(r.options.maxResults, continuousContext.config.maxSnippets)
       /\ \A i \in 1..Len(r.snippets) :
            r.snippets[i].score >=
              Coalesce(r.options.minScore, continuousContext.config.minRelevanceScore)]_vars

\* A step that is the call rollback(k)
RollbackCalled(k) ==
  /\ selfModification'.out # <<>>
  /\ selfModification'.out[1] = <<"rollback", k>>

RollbackRejected == Emitted(selfModification'.out, "throw:Not enough history to rollback")

\* The personalities that were current k changes before: counting every
\* change of the current personality, or counting the changes that no
\* rollback has gone back over
CurrentBefore(k) ==
  {selfModification.was[i] : i \in {Len(selfModification.was) - k} \cap DOMAIN selfModification.was}
    \cup {selfModification.undone[i] :
            i \in {Len(selfModification.undone) - k} \cap DOMAIN selfModification.undone}

\* C32: after any updatePersonality and rollback calls, rollback(k) makes
\* the personality that was current k changes earlier the current one; with
\* no more than k entries in the history it rejects with 'Not enough history
\* to rollback' and leaves the current personality as it is.
C32_RollbackGoesBackK ==
  [][\A k \in 1..MaxChanges :
       RollbackCalled(k) =>
         IF Len(selfModification.personalityHistory) <= k
         THEN /\ RollbackRejected
              /\ selfModification'.currentPersonality = selfModification.currentPersonality
         ELSE /\ ~RollbackRejected
              /\ selfModification'.currentPersonality \in CurrentBefore(k)]_vars

====
